---- MODULE Spec2Model ----
(***************************************************************************)
(* A model of the server-side state machines of CloudMap:                  *)
(*   - withExponentialBackoff        (src/src/utils/retry-helpers.ts)      *)
(*   - the architecture store        (src/src/store/architecture-store.ts, *)
(*                                    src/src/app/api/store.ts)            *)
(*   - the conversation sessions and the request orchestrator              *)
(*                                   (src/src/ai/jarvis-orchestrator.ts,   *)
(*                                    src/src/ai/jarvis-integration.ts)    *)
(*   - inferIntent and the context chosen for an intent                    *)
(*                                   (src/src/ai/intent/inferIntent.ts,    *)
(*                                    src/src/ai/context/contextManager.ts)*)
(*   - the layers of processJarvisRequest and processArchitectureUpdate    *)
(*                                   (src/src/ai/jarvis-integration.ts)    *)
(*   - the generate-cdk and update-architecture request handlers           *)
(*                                   (src/src/app/api/.../route.ts)        *)
(* Each subsystem has its own specification (SpecRetry, SpecStore,         *)
(* SpecSession, SpecSessionHistory, SpecOrch, SpecIntent, SpecPipeline,    *)
(* SpecParse, SpecCdk); a specification leaves the variables of the other  *)
(* subsystems at their initial value.                                      *)
(***************************************************************************)
EXTENDS Integers, Sequences, FiniteSets, TLC

VARIABLES
    \* ---- withExponentialBackoff: one call in progress
    rPc,          \* "idle" | "attempt" | "sleeping" | "returned" | "thrown"
    rOpts,        \* the options object the caller passed
    attempt,      \* the loop variable
    delayMs,      \* the current back-off delay
    lastError,    \* the local lastError (NoError = undefined)
    rResult,      \* the value the call returned
    rThrown,      \* the error the call threw
    rWaitMs,      \* the duration of the sleep in progress
    \* ---- observations of the call (not program state)
    calls,        \* how often operation() has been invoked
    sleeps,       \* how many sleeps have been started
    rSteps,       \* how many steps the call has taken
    lastRaised,   \* the error raised by the most recent invocation
    firstSuccess, \* [at, value] of the first invocation that succeeded
    \* ---- the architecture store
    architectureStore, \* the module-level object: own keys -> architecture
    clock,             \* what new Date() / Date.now() reads
    writes,            \* how many store operations have run
    \* ---- observations of the store's operations (not program state)
    lastSaved,    \* per id: the arguments of the last completed
                  \* saveArchitecture, while no other write to id followed
    lastSave,     \* [id, othersKept] of the last completed saveArchitecture
    lastUpdate,   \* the last updateArchitectureFields: its arguments, what
                  \* the store held before, what it returned
    pendingUpdate, \* the updateArchitectureFields call suspended at its await
    \* ---- the conversation sessions
    activeSessions,   \* the module-level object: own keys -> session
    objectExpandos,   \* the properties assigned on the inherited function Object
    \* ---- observations of the sessions' operations (not program state)
    sessionLog,       \* per id: every intent recorded for the session, in order
    \* ---- orchestrateJarvisRequest: one request in progress
    oPc,        \* "idle" | "importing" | "aiCall" | "pipelineReturned" | "done"
    oRequest,   \* [message, architectureId, nodes] of the request
    oIntent,    \* the orchestrator's local `intent` (an EnhancedIntentMatch)
    oPipeline,  \* what processJarvisRequest resolved with
    oSettled,   \* "pending" | "resolved" | "rejected": the returned promise
    oResult,    \* the EnhancedResponse it resolved with
    requests,   \* how many requests have been made
    \* ---- observations of the request (not program state)
    oFailed,    \* the steps of the request that failed
    \* ---- inferIntent: one message at a time
    iPc,            \* "typing" | "done"
    iMessage,       \* the message, a sequence of words
    iContext,       \* the hasArchitectureContext argument
    iResult,        \* the intent inferIntent returned
    iArchitecture,  \* the architecture the chat handler builds the context of
    iLevel,         \* the context level chosen for the intent
    iContextString, \* the context string built for it
    \* ---- processJarvisRequest: the calls in progress
    pipelineCalls,  \* per call: [pc, message, nodes, intent, aiCalls, result]
                    \* and, as an observation, the trace of its layers
    \* ---- processArchitectureUpdate: one call at a time
    uPc,        \* "idle" | "done"
    uResponse,  \* the raw response: what each extraction pattern captures
                \* in it, and where an explanation can be taken from
    uReturned,  \* [parsedArchitecture, explanation]
    \* ---- the generate-cdk and update-architecture handlers: one request
    \* ---- of each in progress
    gPc,            \* generate-cdk: "idle" | "awaitingAi" | "done"
    gRequest,       \* its body: [architectureId, language]
    gArchitecture,  \* its local `architecture`, read before the AI call
    ePc,            \* update-architecture: "idle" | "read" | "done"
    eRequest,       \* its body: [architectureId, nodes, edges]
    eCurrent,       \* its local currentArchitecture
    cRequests,      \* how many requests have been started
    \* ---- observations of the two handlers (not program state)
    committed,      \* per id: the nodes and edges of the last write to id
                    \* that was not generate-cdk's
    lastCdkWrite    \* what the last write of generate-cdk changed

retryVars == <<rPc, rOpts, attempt, delayMs, lastError, rResult, rThrown,
               rWaitMs, calls, sleeps, rSteps, lastRaised, firstSuccess>>

storeVars == <<architectureStore, clock, writes, lastSaved, lastSave,
               lastUpdate, pendingUpdate>>

sessionVars == <<activeSessions, objectExpandos, sessionLog>>

orchVars == <<oPc, oRequest, oIntent, oPipeline, oSettled, oResult, requests,
              oFailed>>

intentVars == <<iPc, iMessage, iContext, iResult, iArchitecture, iLevel,
                iContextString>>

\* The variables of the subsystems added to the first four.
pipeVars == <<pipelineCalls>>

parseVars == <<uPc, uResponse, uReturned>>

cdkVars == <<gPc, gRequest, gArchitecture, ePc, eRequest, eCurrent, cRequests,
             committed, lastCdkWrite>>

laterVars == <<intentVars, pipeVars, parseVars, cdkVars>>

vars == <<retryVars, storeVars, sessionVars, orchVars, laterVars>>

(***************************************************************************)
(* JavaScript objects are functions from their own keys to values; object  *)
(* spread {...a, ...b} is Merge(a, b).                                     *)
(***************************************************************************)
EmptyObj == [k \in {} |-> 0]

Merge(a, b) ==
    [k \in (DOMAIN a) \cup (DOMAIN b) |-> IF k \in DOMAIN b THEN b[k] ELSE a[k]]

Min(a, b) == IF a <= b THEN a ELSE b

(***************************************************************************)
(*                      withExponentialBackoff                             *)
(***************************************************************************)

\* Defaults of the options destructuring.
DefaultMaxRetries == 3
DefaultInitialDelayMs == 200
DefaultMaxDelayMs == 10000
DefaultBackoffFactor == 2
\* jitterFactor = 0.25 = 1 / JitterFactorInverse
JitterFactorInverse == 4
RetryStatusCodes == {429, 503, 502, 500}

\* Bounds of the model.
MaxRetriesOption == 3    \* options.maxRetries ranges over -1 .. MaxRetriesOption
RandomLevels == 2        \* Math.random() ranges over k / RandomLevels, k < RandomLevels

\* An error message is a sequence of word tokens; String.includes is
\* containment of a contiguous run of tokens.
Includes(msg, needle) ==
    \E i \in 0 .. (Len(msg) - Len(needle)) :
        \A j \in 1 .. Len(needle) : msg[i + j] = needle[j]

\* The statuses and messages an operation's error may carry. status 0 and the
\* empty message stand for an absent (falsy) field.
ErrorStatuses == {0, 400, 404, 429, 500, 502, 503}
ErrorMessages == { <<>>,
                   <<"Bad", "Request">>,
                   <<"503", "Service", "Unavailable">>,
                   <<"Unavailable", "Service">>,
                   <<"network", "error">>,
                   <<"request", "timeout">>,
                   <<"model", "overloaded">> }
Values == {"v1", "v2"}
NoValue == "undefined"
NoError == [seq |-> 0, status |-> 0, message |-> <<>>]

\* The options objects callers pass: {} or {maxRetries} and/or {maxDelayMs}.
RetryOptions ==
    {EmptyObj}
    \cup {[maxRetries |-> n] : n \in -1 .. MaxRetriesOption}
    \cup {[maxRetries |-> n, maxDelayMs |-> 300] : n \in {MaxRetriesOption}}

Option(opts, key, default) == IF key \in DOMAIN opts THEN opts[key] ELSE default

maxRetries == Option(rOpts, "maxRetries", DefaultMaxRetries)
maxDelayMs == Option(rOpts, "maxDelayMs", DefaultMaxDelayMs)

\* A variant of ShouldRetry that retries on any error that has a message.
ShouldRetryAnyMessage(error) ==
    \/ (error.status # 0 /\ error.status \in RetryStatusCodes)
    \/ error.message # <<>>

\* shouldRetry, as the catch block computes it.
ShouldRetry(error) ==
    \/ (error.status # 0 /\ error.status \in RetryStatusCodes)
    \/ (error.message # <<>> /\ Includes(error.message, <<"Service", "Unavailable">>))
    \/ (error.message # <<>> /\ (\/ Includes(error.message, <<"network">>)
                                 \/ Includes(error.message, <<"timeout">>)
                                 \/ Includes(error.message, <<"overloaded">>)))

\* A variant of RecordError that keeps the first error of the call.
KeepFirstError(previous, error) == IF previous = NoError THEN error ELSE previous

\* lastError = error
RecordError(previous, error) == error

\* A variant of ReturnValue that drops the operation's value.
ReturnNothing(value) == NoValue

\* return await operation()
ReturnValue(value) == value

\* A variant of NextAttempt that forgets the increment.
SameAttempt(a) == a

\* attempt++
NextAttempt(a) == a + 1

\* for (...; attempt <= maxRetries; ...)
LoopContinues(a) == a <= maxRetries

\* A step of withExponentialBackoff touches none of the shared state.
RetryFrame == UNCHANGED <<storeVars, sessionVars, orchVars, laterVars>>

\* The call: the options are destructured, and the loop condition is
\* evaluated for attempt = 0.
RetryCall ==
    /\ RetryFrame
    /\ rPc = "idle"
    /\ \E opts \in RetryOptions :
        LET mr == Option(opts, "maxRetries", DefaultMaxRetries) IN
        /\ rOpts' = opts
        /\ rPc' = IF 0 <= mr THEN "attempt" ELSE "thrown"
    /\ attempt' = 0
    /\ delayMs' = DefaultInitialDelayMs
    /\ rSteps' = rSteps + 1
    /\ UNCHANGED <<lastError, rResult, rThrown, rWaitMs, calls, sleeps,
                   lastRaised, firstSuccess>>

\* One iteration's try: operation() is invoked and fulfils with a value.
RetryAttemptSucceeds ==
    /\ RetryFrame
    /\ rPc = "attempt"
    /\ \E v \in Values :
        /\ rResult' = ReturnValue(v)
        /\ firstSuccess' = IF firstSuccess.at = 0
                             THEN [at |-> calls + 1, value |-> v]
                             ELSE firstSuccess
    /\ rPc' = "returned"
    /\ calls' = calls + 1
    /\ rSteps' = rSteps + 1
    /\ UNCHANGED <<rOpts, attempt, delayMs, lastError, rThrown, rWaitMs,
                   sleeps, lastRaised>>

\* One iteration's try and catch: operation() is invoked and rejects; the
\* catch block throws, or starts the sleep before the next attempt.
RetryAttemptFails ==
    /\ RetryFrame
    /\ rPc = "attempt"
    /\ \E st \in ErrorStatuses, msg \in ErrorMessages, r \in 0 .. (RandomLevels - 1) :
        LET error == [seq |-> calls + 1, status |-> st, message |-> msg]
            recorded == RecordError(lastError, error)
            jitter == (r * delayMs) \div (RandomLevels * JitterFactorInverse)
        IN  /\ lastRaised' = error
            /\ lastError' = recorded
            /\ IF ~ShouldRetry(error) \/ attempt = maxRetries
                 THEN /\ rPc' = "thrown"
                      /\ rThrown' = recorded
                      /\ UNCHANGED <<rWaitMs, sleeps>>
                 ELSE /\ rPc' = "sleeping"
                      /\ rWaitMs' = delayMs + jitter
                      /\ sleeps' = sleeps + 1
                      /\ UNCHANGED rThrown
    /\ calls' = calls + 1
    /\ rSteps' = rSteps + 1
    /\ UNCHANGED <<rOpts, attempt, delayMs, rResult, firstSuccess>>

\* The timer of the sleep fires: the delay grows, attempt++ and the loop
\* condition is evaluated; past the loop, lastError is thrown.
RetryTimerFires ==
    /\ RetryFrame
    /\ rPc = "sleeping"
    /\ delayMs' = Min(delayMs * DefaultBackoffFactor, maxDelayMs)
    /\ attempt' = NextAttempt(attempt)
    /\ IF LoopContinues(NextAttempt(attempt))
         THEN /\ rPc' = "attempt"
              /\ UNCHANGED rThrown
         ELSE /\ rPc' = "thrown"
              /\ rThrown' = lastError
    /\ rSteps' = rSteps + 1
    /\ UNCHANGED <<rOpts, lastError, rResult, rWaitMs, calls, sleeps,
                   lastRaised, firstSuccess>>

RetryInit ==
    /\ rPc = "idle"
    /\ rOpts = EmptyObj
    /\ attempt = 0
    /\ delayMs = DefaultInitialDelayMs
    /\ lastError = NoError
    /\ rResult = NoValue
    /\ rThrown = NoError
    /\ rWaitMs = 0
    /\ calls = 0
    /\ sleeps = 0
    /\ rSteps = 0
    /\ lastRaised = NoError
    /\ firstSuccess = [at |-> 0, value |-> NoValue]


(***************************************************************************)
(*                        The architecture store                           *)
(***************************************************************************)

\* Bounds of the model.
MaxClock == 1     \* the clock reads 0 .. MaxClock
MaxWrites == 2    \* store operations per run

\* JavaScript values as far as the store's code tells them apart.
JsNull == [type |-> "null", props |-> EmptyObj]
JsUndefined == [type |-> "undefined", props |-> EmptyObj]
JsObject(o) == [type |-> "object", props |-> o]
\* The function Object: what every object literal inherits under the key
\* "constructor"; it has no enumerable own property.
ObjectConstructor == [type |-> "function", props |-> EmptyObj]
Truthy(v) == v.type \notin {"null", "undefined"}
\* {...v}: the enumerable own properties; nothing for null and undefined.
Spread(v) == IF v.type \in {"object", "function"} THEN v.props ELSE EmptyObj

\* architectureStore and activeSessions are object literals ({}): a key that
\* is no own property is looked up on Object.prototype.
ObjectPrototypeKeys == {"constructor"}

\* obj[key]
PropertyLookup(obj, key) ==
    IF key \in DOMAIN obj THEN JsObject(obj[key])
    ELSE IF key \in ObjectPrototypeKeys THEN ObjectConstructor
    ELSE JsUndefined

\* o[key] of a string-valued property; "undefined" when o has none.
Field(o, key) == IF key \in DOMAIN o THEN o[key] ELSE "undefined"

\* a.metadata as it is spread: {} when a has none.
MetadataOf(a) == IF "metadata" \in DOMAIN a THEN a.metadata ELSE EmptyObj

\* The ids requests carry, "" among them.
StoreIds == {"", "arch-1", "arch-2", "constructor"}
Editors == {"system", "User"}
NodeLists == {"nodes-A", "nodes-B"}

\* The architectures handlers save.
SaveInputs ==
    {[nodes |-> n, edges |-> e] : n \in NodeLists, e \in {"edges-A"}}
    \cup {[nodes |-> "nodes-B", edges |-> "edges-B",
           metadata |-> [prompt |-> "p1", lastEditedBy |-> "Generator"]]}

\* The Partial<Architecture> values handlers update with; the first is the
\* one the save-cdk handler builds.
FieldInputs ==
    { [metadata |-> [cdkCode |-> "cdk-2", cdkLastEdited |-> 0]],
      [nodes |-> "nodes-B"],
      [edges |-> "edges-B", metadata |-> [prompt |-> "p2", lastEditedBy |-> "Imported"]],
      EmptyObj }

\* getArchitecture; it reads the store and changes nothing, so the model has
\* no action for it: a handler that calls it in some state gets this value.
GetArchitecture(store, architectureId) ==
    IF architectureId = "" THEN JsNull
    ELSE LET architecture == PropertyLookup(store, architectureId)
         IN  IF Truthy(architecture) THEN architecture ELSE JsNull

\* saveArchitecture's updatedArchitecture
SavedArchitecture(architecture, editedBy, now) ==
    Merge(architecture,
          [metadata |-> Merge(MetadataOf(architecture),
                              [lastEditedAt |-> now, lastEditedBy |-> editedBy])])

\* updateArchitectureFields' updatedArchitecture, from the value
\* getArchitecture returned
UpdatedArchitecture(architecture, fields, editedBy, now) ==
    Merge(Merge(Spread(architecture), fields),
          [metadata |-> Merge(Merge(MetadataOf(Spread(architecture)), MetadataOf(fields)),
                              [lastEditedAt |-> now, lastEditedBy |-> editedBy])])

\* architectureStore[architectureId] = updatedArchitecture
StorePut(store, architectureId, value) ==
    [k \in (DOMAIN store) \cup {architectureId} |->
        IF k = architectureId THEN value ELSE store[k]]

\* delete architectureStore[architectureId]
StoreDelete(store, architectureId) ==
    [k \in (DOMAIN store) \ {architectureId} |-> store[k]]

NoPendingUpdate ==
    [active |-> FALSE, id |-> "", fields |-> EmptyObj, by |-> "",
     hadEntry |-> FALSE, architecture |-> JsNull]

NoSave == [set |-> FALSE, nodes |-> "", edges |-> "", by |-> ""]

\* A step of the store touches nothing else.
StoreFrame == UNCHANGED <<retryVars, sessionVars, orchVars, laterVars>>

\* Time passes.
Tick ==
    /\ clock < MaxClock
    /\ clock' = clock + 1
    /\ UNCHANGED <<architectureStore, writes, lastSaved, lastSave, lastUpdate,
                   pendingUpdate, retryVars, sessionVars, orchVars, laterVars>>

\* A handler calls saveArchitecture(id, architecture, editedBy); it throws for
\* an empty id.
SaveArchitectureCall ==
    /\ StoreFrame
    /\ writes < MaxWrites
    /\ writes' = writes + 1
    /\ \E id \in StoreIds, a \in SaveInputs, by \in Editors :
        IF id = ""
          THEN UNCHANGED <<architectureStore, lastSaved, lastSave>>
          ELSE LET after == StorePut(architectureStore, id,
                                     SavedArchitecture(a, by, clock))
               IN  /\ architectureStore' = after
                   /\ lastSaved' = [lastSaved EXCEPT ![id] =
                                      [set |-> TRUE, nodes |-> a.nodes,
                                       edges |-> a.edges, by |-> by]]
                   /\ lastSave' =
                        [id |-> id,
                         othersKept |->
                            \A j \in StoreIds \ {id} :
                                GetArchitecture(after, j)
                                    = GetArchitecture(architectureStore, j)]
    /\ UNCHANGED <<clock, lastUpdate, pendingUpdate>>

\* A handler calls deleteArchitecture(id).
DeleteArchitectureCall ==
    /\ StoreFrame
    /\ writes < MaxWrites
    /\ writes' = writes + 1
    /\ \E id \in StoreIds :
        IF id # "" /\ Truthy(PropertyLookup(architectureStore, id))
          THEN /\ architectureStore' = StoreDelete(architectureStore, id)
               /\ lastSaved' = [lastSaved EXCEPT ![id] = NoSave]
          ELSE UNCHANGED <<architectureStore, lastSaved>>
    /\ UNCHANGED <<clock, lastSave, lastUpdate, pendingUpdate>>

\* A handler calls updateArchitectureFields(id, fields, editedBy): the call
\* runs getArchitecture and suspends at its await.
UpdateArchitectureFieldsCall ==
    /\ StoreFrame
    /\ ~pendingUpdate.active
    /\ writes < MaxWrites
    /\ writes' = writes + 1
    /\ \E id \in StoreIds, fields \in FieldInputs, by \in Editors :
        pendingUpdate' = [active |-> TRUE, id |-> id, fields |-> fields, by |-> by,
                          hadEntry |-> id \in DOMAIN architectureStore,
                          architecture |-> GetArchitecture(architectureStore, id)]
    /\ UNCHANGED <<architectureStore, clock, lastSaved, lastSave, lastUpdate>>

\* The suspended updateArchitectureFields resumes: it returns null, or builds
\* updatedArchitecture from what it read and saves it with saveArchitecture.
UpdateArchitectureFieldsResume ==
    /\ StoreFrame
    /\ pendingUpdate.active
    /\ pendingUpdate' = NoPendingUpdate
    /\ LET p == pendingUpdate
           updated == UpdatedArchitecture(p.architecture, p.fields, p.by, clock)
           stored == SavedArchitecture(updated, p.by, clock)
           seen == [called |-> TRUE, id |-> p.id, fields |-> p.fields, by |-> p.by,
                    hadEntry |-> p.hadEntry, before |-> Spread(p.architecture)]
       IN  IF ~Truthy(p.architecture)
             THEN /\ lastUpdate' = Merge(seen, [result |-> JsNull, storeKept |-> TRUE])
                  /\ UNCHANGED <<architectureStore, lastSaved>>
             ELSE /\ architectureStore' = StorePut(architectureStore, p.id, stored)
                  /\ lastSaved' = [lastSaved EXCEPT ![p.id] =
                                     [set |-> TRUE, nodes |-> Field(updated, "nodes"),
                                      edges |-> Field(updated, "edges"), by |-> p.by]]
                  /\ lastUpdate' =
                       Merge(seen, [result |-> JsObject(stored),
                                    storeKept |->
                                       StorePut(architectureStore, p.id, stored)
                                           = architectureStore])
    /\ UNCHANGED <<clock, writes, lastSave>>

StoreInit ==
    /\ architectureStore = EmptyObj
    /\ clock = 0
    /\ writes = 0
    /\ lastSaved = [id \in StoreIds |-> NoSave]
    /\ lastSave = [id |-> "", othersKept |-> TRUE]
    /\ pendingUpdate = NoPendingUpdate
    /\ lastUpdate = [called |-> FALSE, id |-> "", fields |-> EmptyObj, by |-> "",
                     hadEntry |-> FALSE, before |-> EmptyObj, result |-> JsNull,
                     storeKept |-> TRUE]

StoreNext ==
    \/ Tick
    \/ SaveArchitectureCall
    \/ DeleteArchitectureCall
    \/ UpdateArchitectureFieldsCall
    \/ UpdateArchitectureFieldsResume


(***************************************************************************)
(*                      The conversation sessions                          *)
(***************************************************************************)

\* if (session.intents.length > 20) session.intents = session.intents.slice(-20)
IntentHistoryLimit == 20

\* Bounds of the model: the updateSession calls that carry an intent, per run.
MaxIntentUpdates == 2     \* over several conversations (SpecSession)
MaxHistoryUpdates == 21   \* in one long conversation (SpecSessionHistory)

SessionIds == {"arch-1", "arch-2", "constructor"}
\* The update objects callers pass to updateSession.
SessionUpdates ==
    { EmptyObj,
      [intent |-> "question"],
      [messages |-> <<"m1">>],
      [intent |-> "question", messages |-> <<"m1", "m2">>] }

\* Array.prototype.slice(start) for a negative start.
SliceFromEnd(seq, count) ==
    SubSeq(seq, (IF Len(seq) > count THEN Len(seq) - count ELSE 0) + 1, Len(seq))

\* Array.prototype.slice(0, count)
SliceFromStart(seq, count) ==
    SubSeq(seq, 1, IF Len(seq) > count THEN count ELSE Len(seq))

\* A variant of LimitIntents that keeps the oldest entries.
KeepOldestIntents(intents) ==
    IF Len(intents) > IntentHistoryLimit
      THEN SliceFromStart(intents, IntentHistoryLimit)
      ELSE intents

\* Limit history size
LimitIntents(intents) ==
    IF Len(intents) > IntentHistoryLimit
      THEN SliceFromEnd(intents, IntentHistoryLimit)
      ELSE intents

NewSession(architectureId, now) ==
    [id |-> architectureId, messageCount |-> 0, lastMessageTimestamp |-> now,
     intents |-> <<>>]

\* A variant of GetOrCreateSession that creates a session on every call.
AlwaysCreateSession(sessions, architectureId, now) ==
    LET after == StorePut(sessions, architectureId, NewSession(architectureId, now))
    IN  [sessions |-> after, value |-> PropertyLookup(after, architectureId)]

\* getOrCreateSession: [sessions |-> activeSessions afterwards,
\*                      value |-> what it returns]
GetOrCreateSession(sessions, architectureId, now) ==
    LET after == IF ~Truthy(PropertyLookup(sessions, architectureId))
                   THEN StorePut(sessions, architectureId,
                                 NewSession(architectureId, now))
                   ELSE sessions
    IN  [sessions |-> after, value |-> PropertyLookup(after, architectureId)]

\* The assignments of updateSession on the object getOrCreateSession returned
\* (its properties `session`); threw: session.intents.push failed because the
\* object has no intents.
UpdatedSession(session, update, now) ==
    LET withMessages ==
            IF "messages" \in DOMAIN update /\ update.messages # <<>>
              THEN Merge(session, [messages |-> update.messages,
                                   messageCount |-> Len(update.messages)])
              ELSE session
        pushes == "intent" \in DOMAIN update
        threw == pushes /\ "intents" \notin DOMAIN withMessages
        withIntent ==
            IF pushes /\ ~threw
              THEN Merge(withMessages,
                         [intents |->
                            LimitIntents(Append(withMessages.intents,
                                                [intent |-> update.intent,
                                                 timestamp |-> now]))])
              ELSE withMessages
    IN  [threw |-> threw,
         session |-> IF threw THEN withMessages
                     ELSE Merge(withIntent, [lastMessageTimestamp |-> now])]

TotalLogged ==
    Len(sessionLog["arch-1"]) + Len(sessionLog["arch-2"])
        + Len(sessionLog["constructor"])

\* A step of the sessions touches nothing else.
SessionFrame == UNCHANGED <<retryVars, architectureStore, writes, lastSaved,
                            lastSave, lastUpdate, pendingUpdate, orchVars,
                            laterVars>>

\* A handler calls getOrCreateSession(id), for an id in ids, and a session is
\* created (a call that finds one changes nothing).
GetOrCreateSessionCall(ids) ==
    /\ SessionFrame
    /\ \E id \in ids :
        /\ activeSessions' = GetOrCreateSession(activeSessions, id, clock).sessions
        /\ activeSessions' # activeSessions
        /\ sessionLog' = [sessionLog EXCEPT ![id] = <<>>]
    /\ UNCHANGED <<clock, objectExpandos>>

\* A handler calls updateSession(id, update), for an id in ids and an update
\* in updates; at most cap calls of a run record an intent.
UpdateSessionCall(ids, updates, cap) ==
    /\ SessionFrame
    /\ \E id \in ids, update \in updates :
        LET got == GetOrCreateSession(activeSessions, id, clock)
            own == id \in DOMAIN got.sessions
            target == IF own THEN got.sessions[id] ELSE objectExpandos
            done == UpdatedSession(target, update, clock)
            logged == "intent" \in DOMAIN update /\ ~done.threw
            log == IF id \in DOMAIN activeSessions THEN sessionLog[id] ELSE <<>>
        IN  /\ (logged => TotalLogged < cap)
            /\ activeSessions' = IF own THEN StorePut(got.sessions, id, done.session)
                                 ELSE got.sessions
            /\ objectExpandos' = IF own THEN objectExpandos ELSE done.session
            /\ sessionLog' =
                 [sessionLog EXCEPT ![id] =
                    IF logged
                      THEN Append(log, [intent |-> update.intent, timestamp |-> clock])
                      ELSE log]
    /\ UNCHANGED clock

\* A handler calls clearConversationSession(id), for an id in ids.
ClearConversationSessionCall(ids) ==
    /\ SessionFrame
    /\ \E id \in ids :
        /\ Truthy(PropertyLookup(activeSessions, id))
        /\ activeSessions' = StoreDelete(activeSessions, id)
        /\ sessionLog' = [sessionLog EXCEPT ![id] = <<>>]
    /\ UNCHANGED <<clock, objectExpandos>>

SessionInit ==
    /\ activeSessions = EmptyObj
    /\ objectExpandos = EmptyObj
    /\ sessionLog = [id \in SessionIds |-> <<>>]

\* Several conversations, each short.
SessionNext ==
    \/ Tick
    \/ GetOrCreateSessionCall(SessionIds)
    \/ UpdateSessionCall(SessionIds, SessionUpdates, MaxIntentUpdates)
    \/ ClearConversationSessionCall(SessionIds)

\* One conversation, long enough for its intent history to be cut.
HistoryNext ==
    \/ Tick
    \/ GetOrCreateSessionCall({"arch-1"})
    \/ UpdateSessionCall({"arch-1"}, {EmptyObj, [intent |-> "question"]},
                         MaxHistoryUpdates)
    \/ ClearConversationSessionCall({"arch-1"})


(***************************************************************************)
(*         orchestrateJarvisRequest and processJarvisRequest               *)
(***************************************************************************)

\* Bound of the model.
MaxRequests == 2    \* requests per run, one after the other

\* A message is described by what the intent rules and the confidence
\* heuristics read off it; a message that is no string makes inferIntent throw.
Messages ==
    { [isString |-> TRUE, intent |-> "architecture_update", subType |-> "add_service",
       hasQuestionMark |-> FALSE, hasCodeWord |-> FALSE, hasCdk |-> FALSE, short |-> FALSE],
      [isString |-> TRUE, intent |-> "architecture_update", subType |-> "undefined",
       hasQuestionMark |-> TRUE, hasCodeWord |-> TRUE, hasCdk |-> TRUE, short |-> TRUE],
      [isString |-> TRUE, intent |-> "cdk_generation", subType |-> "undefined",
       hasQuestionMark |-> FALSE, hasCodeWord |-> TRUE, hasCdk |-> TRUE, short |-> FALSE],
      [isString |-> TRUE, intent |-> "question", subType |-> "undefined",
       hasQuestionMark |-> TRUE, hasCodeWord |-> FALSE, hasCdk |-> FALSE, short |-> FALSE],
      [isString |-> TRUE, intent |-> "general_chat", subType |-> "undefined",
       hasQuestionMark |-> FALSE, hasCodeWord |-> FALSE, hasCdk |-> FALSE, short |-> TRUE],
      [isString |-> FALSE, intent |-> "general_chat", subType |-> "undefined",
       hasQuestionMark |-> FALSE, hasCodeWord |-> FALSE, hasCdk |-> FALSE, short |-> FALSE] }

\* The nodes of the architecture passed in: none, nodes with data.service, or
\* a node without data (reading node.data.service throws).
NodeShapes == {"empty", "wellformed", "malformed"}
RequestIds == {"arch-1", "constructor"}
\* What the Cohere call settles with.
AiOutcomes == {"rejects", "valid-architecture", "plain-text"}
ImportOutcomes == {"loaded", "fails"}

\* adjustIntentConfidence, in hundredths.
AdjustedConfidence(intentType, message) ==
    90 - (IF message.hasQuestionMark /\ intentType # "question" THEN 15 ELSE 0)
       - (IF message.hasCodeWord
             /\ intentType \notin {"code_generation", "cdk_generation"} THEN 10 ELSE 0)
       - (IF message.hasCdk /\ intentType # "cdk_generation" THEN 20 ELSE 0)
       - (IF intentType = "architecture_update" /\ message.short THEN 30 ELSE 0)

\* detectEnhancedIntent: [threw, match]
DetectEnhancedIntent(message) ==
    [threw |-> ~message.isString,
     match |-> [intentType |-> message.intent,
                subType |-> IF message.intent = "architecture_update"
                              THEN message.subType ELSE "undefined",
                confidence |-> AdjustedConfidence(message.intent, message)]]

\* getContextLevelForIntent
GetContextLevelForIntent(intent) ==
    CASE intent \in {"architecture_update", "cdk_generation"} -> "full"
      [] intent \in {"code_generation", "code_explanation", "system_design"} -> "summary"
      [] intent \in {"architecture_explanation", "comparison", "question"} -> "minimal"
      [] OTHER -> "none"

\* generateAIPrompt throws when generateContextString reads node.data of a
\* node that has none (levels summary and full).
GenerateAIPromptThrows(intentType, nodes) ==
    /\ GetContextLevelForIntent(intentType) \in {"summary", "full"}
    /\ nodes = "malformed"

\* generateFollowupSuggestions throws when it reads node.data.service of a
\* node that has no data.
GenerateFollowupsThrows(nodes) == nodes = "malformed"

\* processArchitectureUpdate, as far as the request needs it: the parsed
\* architecture, or null.
ParsedArchitecture(rawResponse) ==
    IF rawResponse = "valid-architecture" THEN "parsed-architecture" ELSE "null"

\* processJarvisRequest's catch block
PipelineError == [response |-> "pipeline-error", architectureUpdated |-> FALSE]

\* processJarvisRequest's layer 5 and return
PipelineResult(intentType, rawResponse) ==
    IF intentType = "architecture_update"
      THEN IF ParsedArchitecture(rawResponse) # "null"
             THEN [response |-> "update-succeeded", architectureUpdated |-> TRUE,
                   updatedArchitecture |-> ParsedArchitecture(rawResponse)]
             ELSE [response |-> "update-not-parsed", architectureUpdated |-> FALSE]
      ELSE [response |-> "post-processed", architectureUpdated |-> FALSE]

\* The strings a response is made of.
ResponseTexts == {"pipeline-error", "update-succeeded", "update-not-parsed",
                  "post-processed", "fallback"}

\* A variant of OrchestratorCatch that lets the error escape.
OrchestratorRethrows(error) ==
    [settled |-> "rejected", result |-> EmptyObj]

\* orchestrateJarvisRequest's catch block: [settled, result]
OrchestratorCatch(error) ==
    [settled |-> "resolved",
     result |-> [response |-> "fallback", architectureUpdated |-> FALSE,
                 metadata |-> [intent |-> "general_chat", confidence |-> 0]]]

\* orchestrateJarvisRequest's return in the try block
OrchestratorReturn(result, intent) ==
    [settled |-> "resolved",
     result |-> Merge(result,
                      [metadata |-> [intent |-> intent.intentType,
                                     subIntent |-> intent.subType,
                                     confidence |-> intent.confidence]])]

NoIntent == [intentType |-> "general_chat", subType |-> "undefined", confidence |-> 0]
NoRequest == [message |-> CHOOSE m \in Messages : ~m.isString,
              architectureId |-> "", nodes |-> "empty"]

\* A step of a request touches the sessions, and nothing else outside it.
OrchFrame == UNCHANGED <<retryVars, storeVars, laterVars>>

\* A handler calls orchestrateJarvisRequest(message, architectureId,
\* architecture): the call runs to its first suspension, the await of the
\* dynamic import inside processJarvisRequest, or to an earlier end.
OrchestrateCall ==
    /\ OrchFrame
    /\ oPc \in {"idle", "done"}
    /\ requests < MaxRequests
    /\ requests' = requests + 1
    /\ \E message \in Messages, id \in RequestIds, nodes \in NodeShapes :
        LET got == GetOrCreateSession(activeSessions, id, clock)
            detected == DetectEnhancedIntent(message)
            own == id \in DOMAIN got.sessions
            target == IF own THEN got.sessions[id] ELSE objectExpandos
            update == [intent |-> detected.match.intentType]
            done == UpdatedSession(target, update, clock)
            log == IF id \in DOMAIN activeSessions THEN sessionLog[id] ELSE <<>>
            caught == OrchestratorCatch("error")
        IN  /\ oRequest' = [message |-> message, architectureId |-> id, nodes |-> nodes]
            /\ IF detected.threw
                 THEN \* detectEnhancedIntent throws: the catch block returns
                      /\ activeSessions' = got.sessions
                      /\ UNCHANGED <<objectExpandos, oIntent, oPipeline>>
                      /\ sessionLog' = [sessionLog EXCEPT ![id] = log]
                      /\ oFailed' = {"intent"}
                      /\ oPc' = "done"
                      /\ oSettled' = caught.settled
                      /\ oResult' = caught.result
                 ELSE IF done.threw
                 THEN \* updateSession throws: the catch block returns
                      /\ activeSessions' = got.sessions
                      /\ objectExpandos' = IF own THEN objectExpandos ELSE done.session
                      /\ sessionLog' = [sessionLog EXCEPT ![id] = log]
                      /\ oIntent' = detected.match
                      /\ UNCHANGED oPipeline
                      /\ oFailed' = {"session"}
                      /\ oPc' = "done"
                      /\ oSettled' = caught.settled
                      /\ oResult' = caught.result
                 ELSE \* processJarvisRequest is called
                      /\ activeSessions' = StorePut(got.sessions, id, done.session)
                      /\ UNCHANGED objectExpandos
                      /\ sessionLog' = [sessionLog EXCEPT ![id] =
                                          Append(log, [intent |-> update.intent,
                                                       timestamp |-> clock])]
                      /\ oIntent' = detected.match
                      /\ oSettled' = "pending"
                      /\ oResult' = EmptyObj
                      /\ IF GenerateAIPromptThrows(detected.match.intentType, nodes)
                           THEN /\ oPipeline' = PipelineError
                                /\ oFailed' = {"prompt"}
                                /\ oPc' = "pipelineReturned"
                           ELSE /\ UNCHANGED oPipeline
                                /\ oFailed' = {}
                                /\ oPc' = "importing"
    /\ UNCHANGED clock

\* The dynamic import of ./cohere-chat settles; on success the Cohere call is
\* made and processJarvisRequest suspends on it.
ImportSettles ==
    /\ OrchFrame
    /\ oPc = "importing"
    /\ \E outcome \in ImportOutcomes :
        IF outcome = "fails"
          THEN /\ oPipeline' = PipelineError
               /\ oFailed' = oFailed \cup {"import"}
               /\ oPc' = "pipelineReturned"
          ELSE /\ oPc' = "aiCall"
               /\ UNCHANGED <<oPipeline, oFailed>>
    /\ UNCHANGED <<clock, sessionVars, oRequest, oIntent, oSettled, oResult, requests>>

\* The Cohere call settles; processJarvisRequest post-processes the response
\* and returns, or its catch block returns.
AiCallSettles ==
    /\ OrchFrame
    /\ oPc = "aiCall"
    /\ \E outcome \in AiOutcomes :
        IF outcome = "rejects"
          THEN /\ oPipeline' = PipelineError
               /\ oFailed' = oFailed \cup {"ai"}
          ELSE /\ oPipeline' = PipelineResult(oIntent.intentType, outcome)
               /\ UNCHANGED oFailed
    /\ oPc' = "pipelineReturned"
    /\ UNCHANGED <<clock, sessionVars, oRequest, oIntent, oSettled, oResult, requests>>

\* orchestrateJarvisRequest resumes with processJarvisRequest's result:
\* it generates the follow-up suggestions and returns.
OrchestratorResumes ==
    /\ OrchFrame
    /\ oPc = "pipelineReturned"
    /\ LET threw == GenerateFollowupsThrows(oRequest.nodes)
           settled == IF threw THEN OrchestratorCatch("error")
                      ELSE OrchestratorReturn(oPipeline, oIntent)
       IN  /\ oFailed' = IF threw THEN oFailed \cup {"followups"} ELSE oFailed
           /\ oSettled' = settled.settled
           /\ oResult' = settled.result
    /\ oPc' = "done"
    /\ UNCHANGED <<clock, sessionVars, oRequest, oIntent, oPipeline, requests>>

OrchInit ==
    /\ oPc = "idle"
    /\ oRequest = NoRequest
    /\ oIntent = NoIntent
    /\ oPipeline = PipelineError
    /\ oSettled = "pending"
    /\ oResult = EmptyObj
    /\ requests = 0
    /\ oFailed = {}

OrchNext ==
    \/ Tick
    \/ OrchestrateCall
    \/ ImportSettles
    \/ AiCallSettles
    \/ OrchestratorResumes

(***************************************************************************)
(*                 inferIntent and the context it selects                  *)
(***************************************************************************)

\* Bound of the model.
MaxWords == 4    \* words per message

\* A message is a sequence of lower-case words, read with single spaces
\* between them; <<>> is the empty string. The patterns carry the i flag and
\* the keywords are compared in lower case.
Vocabulary == {"analyze", "the", "design", "architecture",
               "generate", "cdk", "code", "hello"}

\* String.includes and an unanchored literal of a pattern, word by word: the
\* literals and keywords of intentRules that occur within each word of the
\* vocabulary. A literal of several words ("cloud development kit") occurs
\* within no single word, the empty literal within every word.
WordsWithin ==
    [ analyze |-> {"", "a", "an", "analyze"},
      the |-> {"", "the"},
      design |-> {"", "design", "i"},
      architecture |-> {"", "a", "architect", "architecture", "hi", "i"},
      generate |-> {"", "a", "generate"},
      cdk |-> {"", "cdk"},
      code |-> {"", "code"},
      hello |-> {"", "hello"} ]

\* The same for a literal behind ^: the literals each word starts with.
WordsAtStart ==
    [ analyze |-> {"", "a", "an", "analyze"},
      the |-> {"", "the"},
      design |-> {"", "design"},
      architecture |-> {"", "a", "architect", "architecture"},
      generate |-> {"", "generate"},
      cdk |-> {"", "cdk"},
      code |-> {"", "code"},
      hello |-> {"", "hello"} ]

\* A pattern is a sequence of groups of alternative literals. gap tells what
\* the pattern has before the group: "first" nothing (the group opens the
\* pattern), "adjacent" one space, "any" .* and "some" " .+ ".
Group(gap, alts) == [gap |-> gap, alts |-> alts]
Pattern(anchored, parts) == [anchored |-> anchored, parts |-> parts]
NoKeywordSets == {{""}}

\* const intentRules: IntentRule[]; a rule without keywordSets has
\* hasKeywordSets = FALSE.
intentRules ==
    <<
      [ intent |-> "greeting", weight |-> 10, requiresContext |-> FALSE,
        hasKeywordSets |-> FALSE,
        keywordSets |-> NoKeywordSets,
        patterns |-> <<
          Pattern(TRUE, <<
            Group("first", {"hi", "hello", "hey", "greetings", "howdy",
                   "good morning", "good afternoon", "good evening",
                   "what's up", "whats up"}) >>) >> ],
      [ intent |-> "architecture_update", weight |-> 90, requiresContext |-> TRUE,
        hasKeywordSets |-> TRUE,
        keywordSets |-> {{"add", "architecture"}, {"update", "architecture"},
                         {"modify", "architecture"},
                         {"change", "architecture"},
                         {"redesign", "architecture"}},
        patterns |-> <<
          Pattern(FALSE, <<
            Group("first", {"update"}),
            Group("adjacent", {"the", "this", "my", "our"}),
            Group("adjacent", {"architecture", "diagram", "system"}) >>),
          Pattern(FALSE, <<
            Group("first", {"add"}),
            Group("some", {"to"}),
            Group("adjacent", {"the", "this", "my", "our"}),
            Group("adjacent", {"architecture", "diagram", "system"}) >>),
          Pattern(FALSE, <<
            Group("first", {"modify"}),
            Group("adjacent", {"the", "this", "my", "our"}),
            Group("adjacent", {"architecture", "diagram", "system"}) >>),
          Pattern(FALSE, <<
            Group("first", {"change"}),
            Group("adjacent", {"the", "this", "my", "our"}),
            Group("adjacent", {"architecture", "diagram", "system"}) >>),
          Pattern(FALSE, <<
            Group("first", {"redesign"}),
            Group("adjacent", {"the", "this", "my", "our"}),
            Group("adjacent", {"architecture", "diagram", "system"}) >>) >> ],
      [ intent |-> "architecture_rationale", weight |-> 85, requiresContext |-> TRUE,
        hasKeywordSets |-> TRUE,
        keywordSets |-> {{"rationale", "architecture"},
                         {"explain", "architecture"},
                         {"analyze", "architecture"},
                         {"cost", "architecture"}, {"costs", "architecture"},
                         {"pricing", "architecture"},
                         {"evaluation", "architecture"},
                         {"breakdown", "architecture"},
                         {"analysis", "architecture"},
                         {"assessment", "architecture"}},
        patterns |-> <<
          Pattern(FALSE, <<
            Group("first", {"provide"}),
            Group("any", {"rationale", "explanation", "analysis",
                   "assessment", "evaluation", "review", "breakdown",
                   "cost analysis", "costing"}),
            Group("any", {"for", "of", "about"}),
            Group("any", {"this", "the", "current", "existing"}),
            Group("any", {"architecture", "design", "system", "diagram"}) >>),
          Pattern(FALSE, <<
            Group("first", {"generate"}),
            Group("any", {"rationale", "explanation", "analysis",
                   "assessment", "evaluation", "review", "breakdown",
                   "cost analysis", "costing"}),
            Group("any", {"for", "of", "about"}),
            Group("any", {"this", "the", "current", "existing"}),
            Group("any", {"architecture", "design", "system", "diagram"}) >>),
          Pattern(FALSE, <<
            Group("first", {"explain"}),
            Group("any", {"rationale", "reasoning", "thinking", "logic",
                   "decision", "cost", "costs", "pricing"}),
            Group("any", {"behind", "for", "of"}),
            Group("any", {"this", "the", "current", "existing"}),
            Group("any", {"architecture", "design", "system", "diagram"}) >>),
          Pattern(FALSE, <<
            Group("first", {"analyze", "assess", "evaluate", "review"}),
            Group("any", {"this", "the", "current", "existing"}),
            Group("any", {"architecture", "design", "system", "diagram"}) >>),
          Pattern(FALSE, <<
            Group("first", {"what's", "what is", "what are"}),
            Group("any", {"the"}),
            Group("any", {"cost", "costs", "pricing", "expense", "expenses",
                   "budget"}),
            Group("any", {"of", "for"}),
            Group("any", {"this", "the", "current", "existing"}),
            Group("any", {"architecture", "design", "system", "diagram"}) >>),
          Pattern(FALSE, <<
            Group("first", {"how much"}),
            Group("any", {"would", "does", "will"}),
            Group("any", {"this", "the", "current", "existing"}),
            Group("any", {"architecture", "design", "system", "diagram"}),
            Group("any", {"cost"}) >>),
          Pattern(FALSE, <<
            Group("first", {"break down"}),
            Group("any", {"this", "the", "current"}),
            Group("any", {"architecture", "design", "system", "diagram"}) >>) >> ],
      [ intent |-> "cdk_generation", weight |-> 100, requiresContext |-> TRUE,
        hasKeywordSets |-> TRUE,
        keywordSets |-> {{"generate", "cdk"}, {"create", "cdk"},
                         {"write", "cdk"}, {"implement", "cdk"},
                         {"convert", "cdk"}},
        patterns |-> <<
          Pattern(FALSE, <<
            Group("first", {"generate"}),
            Group("any", {"cdk", "cloud development kit"}),
            Group("any", {"code", "implementation"}) >>),
          Pattern(FALSE, <<
            Group("first", {"create"}),
            Group("any", {"cdk", "cloud development kit"}),
            Group("any", {"code", "implementation"}) >>),
          Pattern(FALSE, <<
            Group("first", {"write"}),
            Group("any", {"cdk", "cloud development kit"}),
            Group("any", {"code", "implementation"}) >>),
          Pattern(FALSE, <<
            Group("first", {"implement"}),
            Group("any", {"architecture", "diagram", "design"}),
            Group("any", {"using", "with", "in"}),
            Group("any", {"cdk", "cloud development kit"}) >>),
          Pattern(FALSE, <<
            Group("first", {"convert"}),
            Group("any", {"architecture", "diagram", "design"}),
            Group("any", {"to", "into"}),
            Group("any", {"cdk", "cloud development kit"}) >>) >> ],
      [ intent |-> "code_generation", weight |-> 80, requiresContext |-> FALSE,
        hasKeywordSets |-> TRUE,
        keywordSets |-> {{"generate", "code"}, {"write", "code"},
                         {"create", "code"}, {"implement", "function"},
                         {"code", "for"}},
        patterns |-> <<
          Pattern(FALSE, <<
            Group("first", {"generate"}),
            Group("any", {"code", "function", "class", "module"}) >>),
          Pattern(FALSE, <<
            Group("first", {"write"}),
            Group("any", {"code", "function", "class", "module"}) >>),
          Pattern(FALSE, <<
            Group("first", {"create"}),
            Group("any", {"code", "function", "class", "module"}) >>),
          Pattern(FALSE, <<
            Group("first", {"implement"}),
            Group("any", {"in", "using"}),
            Group("any", {"javascript", "typescript", "python", "java", "c#",
                   "go"}) >>),
          Pattern(FALSE, <<
            Group("first", {"code"}),
            Group("any", {"for", "that"}),
            Group("any", {"does", "performs", "handles", "implements"}) >>) >> ],
      [ intent |-> "code_explanation", weight |-> 70, requiresContext |-> FALSE,
        hasKeywordSets |-> TRUE,
        keywordSets |-> {{"explain", "code"}, {"how", "code", "work"},
                         {"what", "code", "do"}, {"understand", "code"},
                         {"analyze", "code"}},
        patterns |-> <<
          Pattern(FALSE, <<
            Group("first", {"explain"}),
            Group("any", {"this", "the"}),
            Group("any", {"code", "function", "class", "module"}) >>),
          Pattern(FALSE, <<
            Group("first", {"how"}),
            Group("any", {"does", "do"}),
            Group("any", {"this", "the"}),
            Group("any", {"code", "function", "class", "module"}),
            Group("any", {"work", "function"}) >>),
          Pattern(FALSE, <<
            Group("first", {"what"}),
            Group("any", {"does", "do"}),
            Group("any", {"this", "the"}),
            Group("any", {"code", "function", "class", "module"}),
            Group("any", {"do", "mean"}) >>),
          Pattern(FALSE, <<
            Group("first", {"understand"}),
            Group("any", {"this", "the"}),
            Group("any", {"code", "function", "class", "module"}) >>),
          Pattern(FALSE, <<
            Group("first", {"analyze"}),
            Group("any", {"this", "the"}),
            Group("any", {"code", "function", "class", "module"}) >>) >> ],
      [ intent |-> "architecture_explanation", weight |-> 75, requiresContext |-> TRUE,
        hasKeywordSets |-> TRUE,
        keywordSets |-> {{"explain", "architecture"},
                         {"how", "architecture", "work"},
                         {"what", "architecture", "do"},
                         {"understand", "architecture"},
                         {"analyze", "architecture"}},
        patterns |-> <<
          Pattern(FALSE, <<
            Group("first", {"explain"}),
            Group("any", {"this", "the"}),
            Group("any", {"architecture", "diagram", "system", "design"}) >>),
          Pattern(FALSE, <<
            Group("first", {"how"}),
            Group("any", {"does", "do"}),
            Group("any", {"this", "the"}),
            Group("any", {"architecture", "diagram", "system", "design"}),
            Group("any", {"work", "function"}) >>),
          Pattern(FALSE, <<
            Group("first", {"what"}),
            Group("any", {"does", "do"}),
            Group("any", {"this", "the"}),
            Group("any", {"architecture", "diagram", "system", "design"}),
            Group("any", {"do", "mean"}) >>),
          Pattern(FALSE, <<
            Group("first", {"understand"}),
            Group("any", {"this", "the"}),
            Group("any", {"architecture", "diagram", "system", "design"}) >>),
          Pattern(FALSE, <<
            Group("first", {"analyze"}),
            Group("any", {"this", "the"}),
            Group("any", {"architecture", "diagram", "system", "design"}) >>) >> ],
      [ intent |-> "system_design", weight |-> 85, requiresContext |-> FALSE,
        hasKeywordSets |-> TRUE,
        keywordSets |-> {{"design", "architecture"}, {"create", "system"},
                         {"architect", "solution"},
                         {"how", "design", "system"},
                         {"what", "architecture", "use"}},
        patterns |-> <<
          Pattern(FALSE, <<
            Group("first", {"design"}),
            Group("any", {"a", "an"}),
            Group("any", {"architecture", "system", "solution"}) >>),
          Pattern(FALSE, <<
            Group("first", {"create"}),
            Group("any", {"a", "an"}),
            Group("any", {"architecture", "system", "solution"}),
            Group("any", {"for", "that"}) >>),
          Pattern(FALSE, <<
            Group("first", {"architect"}),
            Group("any", {"a", "an"}),
            Group("any", {"system", "solution"}),
            Group("any", {"for", "that"}) >>),
          Pattern(FALSE, <<
            Group("first", {"how"}),
            Group("any", {"would", "should", "could"}),
            Group("any", {"you", "we", "i"}),
            Group("any", {"architect", "design", "build", "create"}),
            Group("any", {"a", "an"}),
            Group("any", {"system", "solution"}) >>),
          Pattern(FALSE, <<
            Group("first", {"what"}),
            Group("any", {"architecture", "system", "solution"}),
            Group("any", {"would", "should", "could"}),
            Group("any", {"you", "we", "i"}),
            Group("any", {"use", "implement", "create"}),
            Group("any", {"for", "to"}) >>) >> ],
      [ intent |-> "comparison", weight |-> 60, requiresContext |-> FALSE,
        hasKeywordSets |-> TRUE,
        keywordSets |-> {{"compare"}, {"difference", "between"},
                         {"similarities"}, {"pros", "cons"},
                         {"better", "option"}, {"which", "better"}},
        patterns |-> <<
          Pattern(FALSE, <<
            Group("first", {"compare"}),
            Group("any", {"between", "with", "and"}) >>),
          Pattern(FALSE, <<
            Group("first", {"difference"}),
            Group("any", {"between", "with", "and"}) >>),
          Pattern(FALSE, <<
            Group("first", {"similarities"}),
            Group("any", {"between", "with", "and"}) >>),
          Pattern(FALSE, <<
            Group("first", {"pros"}),
            Group("any", {"and"}),
            Group("any", {"cons", "benefits", "advantages", "disadvantages"}) >>),
          Pattern(FALSE, <<
            Group("first", {"better"}),
            Group("any", {"option", "choice", "alternative", "approach"}) >>),
          Pattern(FALSE, <<
            Group("first", {"which"}),
            Group("any", {"is", "are"}),
            Group("any", {"better", "best", "optimal", "preferred"}) >>) >> ],
      [ intent |-> "question", weight |-> 20, requiresContext |-> FALSE,
        hasKeywordSets |-> FALSE,
        keywordSets |-> NoKeywordSets,
        patterns |-> <<
          Pattern(TRUE, <<
            Group("first", {"what", "how", "why", "when", "where", "who",
                   "which", "can", "could", "would", "should", "is", "are",
                   "do", "does", "did", "has", "have", "had"}) >>),
          Pattern(FALSE, <<
            Group("first", {"?"}) >>) >> ],
      [ intent |-> "general_chat", weight |-> 1, requiresContext |-> FALSE,
        hasKeywordSets |-> FALSE,
        keywordSets |-> NoKeywordSets,
        patterns |-> <<
          Pattern(FALSE, <<
            Group("first", {""}) >>) >> ]
    >>

\* pattern.test(message), from the group at index k on, the previous group
\* having matched the word at position pos.
RECURSIVE MatchFrom(_, _, _, _)
MatchFrom(pattern, message, k, pos) ==
    IF k > Len(pattern.parts) THEN TRUE
    ELSE LET part == pattern.parts[k]
             anchoredHere == part.gap = "first" /\ pattern.anchored
             candidates ==
                 CASE part.gap = "first" ->
                          IF pattern.anchored THEN {1} ELSE 1 .. Len(message)
                   [] part.gap = "adjacent" -> {pos + 1}
                   [] part.gap = "any" -> (pos + 1) .. Len(message)
                   [] part.gap = "some" -> (pos + 2) .. Len(message)
         IN  \E c \in candidates :
                 /\ c <= Len(message)
                 /\ \E alt \in part.alts :
                        alt \in (IF anchoredHere THEN WordsAtStart[message[c]]
                                 ELSE WordsWithin[message[c]])
                 /\ MatchFrom(pattern, message, k + 1, c)

PatternTest(pattern, message) == MatchFrom(pattern, message, 1, 0)

\* rule.patterns.some(pattern => pattern.test(message))
PatternMatched(rule, message) ==
    \E i \in 1 .. Len(rule.patterns) : PatternTest(rule.patterns[i], message)

\* keywordMatched: true without keywordSets, else some set has every keyword
\* included in the lower-cased message.
KeywordMatched(rule, message) ==
    IF ~rule.hasKeywordSets THEN TRUE
    ELSE \E keywordSet \in rule.keywordSets :
             \A keyword \in keywordSet :
                 \E j \in 1 .. Len(message) : keyword \in WordsWithin[message[j]]

\* A variant of Skipped that skips no rule.
NeverSkipped(rule, hasArchitectureContext) == FALSE

\* rule.requiresContext && !hasArchitectureContext
Skipped(rule, hasArchitectureContext) ==
    rule.requiresContext /\ ~hasArchitectureContext

\* The matches array after the loop over intentRules, from rule i on.
RECURSIVE CollectMatches(_, _, _)
CollectMatches(message, hasArchitectureContext, i) ==
    IF i > Len(intentRules) THEN <<>>
    ELSE LET rule == intentRules[i]
             rest == CollectMatches(message, hasArchitectureContext, i + 1)
         IN  IF Skipped(rule, hasArchitectureContext) THEN rest
             ELSE IF PatternMatched(rule, message) /\ KeywordMatched(rule, message)
                    THEN <<[intent |-> rule.intent, weight |-> rule.weight]>> \o rest
                    ELSE rest

\* Where a stable sort by descending weight puts m in a sorted sequence:
\* behind every entry that is at least as heavy.
InsertByWeight(sorted, m) ==
    LET ahead == SelectSeq(sorted, LAMBDA e : e.weight >= m.weight)
        behind == SelectSeq(sorted, LAMBDA e : e.weight < m.weight)
    IN  ahead \o <<m>> \o behind

\* A variant of SortByWeight that leaves the matches in rule order.
Unsorted(matches) == matches

\* matches.sort((a, b) => b.weight - a.weight); Array.prototype.sort is stable.
RECURSIVE SortByWeight(_)
SortByWeight(matches) ==
    IF matches = <<>> THEN <<>>
    ELSE InsertByWeight(SortByWeight(SubSeq(matches, 1, Len(matches) - 1)),
                        matches[Len(matches)])

\* inferIntent(message, hasArchitectureContext)
InferIntent(message, hasArchitectureContext) ==
    LET matches == SortByWeight(CollectMatches(message, hasArchitectureContext, 1))
    IN  IF Len(matches) > 0 THEN matches[1].intent ELSE "general_chat"

\* The architectures a chat request finds in the store: nodes with their
\* data, edges, and metadata.prompt ("undefined" when absent).
ChatArchitectures ==
    { [nodes |-> <<>>, edges |-> <<>>, prompt |-> "undefined"],
      [nodes |-> <<"lambda", "dynamodb">>, edges |-> <<"lambda-dynamodb">>,
       prompt |-> "a serverless api"] }

\* generateContextString: the string as the sequence of its pieces; <<>> is
\* the empty string.
GenerateContextString(architecture, level) ==
    LET originalRequirement ==
            IF architecture.prompt # "undefined"
              THEN <<"Original requirement:", architecture.prompt>>
              ELSE <<"No original requirement specified">>
        counts == <<ToString(Len(architecture.nodes)), "services",
                    ToString(Len(architecture.edges)), "connections">>
    IN  CASE level = "none" -> <<>>
          [] level = "minimal" ->
                 <<"CURRENT ARCHITECTURE (MINIMAL):">> \o counts
                     \o originalRequirement
          [] level = "summary" ->
                 <<"CURRENT ARCHITECTURE SUMMARY:">> \o counts
                     \o architecture.nodes \o architecture.edges
                     \o originalRequirement
          [] level = "full" ->
                 <<"FULL CURRENT ARCHITECTURE:", "Nodes JSON:">>
                     \o architecture.nodes \o <<"Edges JSON:">>
                     \o architecture.edges \o <<"Services Summary:">>
                     \o architecture.nodes \o <<"Connections Summary:">>
                     \o architecture.edges \o originalRequirement
          [] OTHER -> <<>>

NoArchitecture == [nodes |-> <<>>, edges |-> <<>>, prompt |-> "undefined"]

IntentFrame == UNCHANGED <<retryVars, storeVars, sessionVars, orchVars, pipeVars,
                           parseVars, cdkVars>>

\* The user types one more word of the message.
TypeWord ==
    /\ IntentFrame
    /\ iPc = "typing"
    /\ Len(iMessage) < MaxWords
    /\ \E word \in Vocabulary : iMessage' = Append(iMessage, word)
    /\ UNCHANGED <<iPc, iContext, iResult, iArchitecture, iLevel, iContextString>>

\* isGreeting(message): inferIntent with hasArchitectureContext at its
\* default, false.
IsGreetingCall ==
    /\ IntentFrame
    /\ iPc = "typing"
    /\ iPc' = "done"
    /\ iContext' = FALSE
    /\ iResult' = InferIntent(iMessage, FALSE)
    /\ UNCHANGED <<iMessage, iArchitecture, iLevel, iContextString>>

\* The chat handler, layers 1 and 4: detectEnhancedIntent(message,
\* !!architecture) for the architecture it has found, then the context level
\* and the context string for the detected intent.
ChatContextCall ==
    /\ IntentFrame
    /\ iPc = "typing"
    /\ iPc' = "done"
    /\ iContext' = TRUE
    /\ \E architecture \in ChatArchitectures :
        LET intentType == InferIntent(iMessage, TRUE)
            contextLevel == GetContextLevelForIntent(intentType)
        IN  /\ iArchitecture' = architecture
            /\ iResult' = intentType
            /\ iLevel' = contextLevel
            /\ iContextString' = GenerateContextString(architecture, contextLevel)
    /\ UNCHANGED iMessage

\* The next message begins.
NextMessage ==
    /\ IntentFrame
    /\ iPc = "done"
    /\ iPc' = "typing"
    /\ iMessage' = <<>>
    /\ iContext' = FALSE
    /\ iResult' = "general_chat"
    /\ iArchitecture' = NoArchitecture
    /\ iLevel' = "none"
    /\ iContextString' = <<>>

IntentInit ==
    /\ iPc = "typing"
    /\ iMessage = <<>>
    /\ iContext = FALSE
    /\ iResult = "general_chat"
    /\ iArchitecture = NoArchitecture
    /\ iLevel = "none"
    /\ iContextString = <<>>

IntentNext ==
    \/ TypeWord
    \/ IsGreetingCall
    \/ ChatContextCall
    \/ NextMessage

(***************************************************************************)
(*                 The layers of processJarvisRequest                      *)
(***************************************************************************)

\* Bound of the model.
MaxPipelineCalls == 2    \* calls of processJarvisRequest in progress at once

PipelineCallIds == 1 .. MaxPipelineCalls

\* The layers, in the order of the function body, and what the trace of a
\* call records of them.
Layers == <<"intent", "language", "prompt", "ai", "post">>
Begin(trace, layer) == Append(trace, <<layer, "start">>)
Finish(trace, layer) == Append(trace, <<layer, "finish">>)

\* detectProgrammingLanguage(message) throws when message is no string.
DetectProgrammingLanguageThrows(message) == ~message.isString

\* A variant of SynchronousLayers that detects the language before the
\* intent.
LanguageBeforeIntent(message, nodes) ==
    LET detected == DetectEnhancedIntent(message)
        t1 == Begin(<<>>, "language")
        t2 == Begin(Finish(t1, "language"), "intent")
        t3 == Begin(Finish(t2, "intent"), "prompt")
    IN  IF DetectProgrammingLanguageThrows(message)
          THEN [threw |-> TRUE, trace |-> t1, intent |-> detected.match]
        ELSE IF detected.threw
          THEN [threw |-> TRUE, trace |-> t2, intent |-> detected.match]
        ELSE IF GenerateAIPromptThrows(detected.match.intentType, nodes)
          THEN [threw |-> TRUE, trace |-> t3, intent |-> detected.match]
        ELSE [threw |-> FALSE, trace |-> Finish(t3, "prompt"),
              intent |-> detected.match]

\* Layers 1 to 3, which run without suspension: intent detection, language
\* detection, prompt generation. [threw, trace, intent]
SynchronousLayers(message, nodes) ==
    LET detected == DetectEnhancedIntent(message)
        t1 == Begin(<<>>, "intent")
        t2 == Begin(Finish(t1, "intent"), "language")
        t3 == Begin(Finish(t2, "language"), "prompt")
    IN  IF detected.threw
          THEN [threw |-> TRUE, trace |-> t1, intent |-> detected.match]
        ELSE IF DetectProgrammingLanguageThrows(message)
          THEN [threw |-> TRUE, trace |-> t2, intent |-> detected.match]
        ELSE IF GenerateAIPromptThrows(detected.match.intentType, nodes)
          THEN [threw |-> TRUE, trace |-> t3, intent |-> detected.match]
        ELSE [threw |-> FALSE, trace |-> Finish(t3, "prompt"),
              intent |-> detected.match]

IdleCall == [pc |-> "idle", message |-> NoRequest.message, nodes |-> "empty",
             intent |-> NoIntent, aiCalls |-> 0, result |-> PipelineError,
             trace |-> <<>>]

PipeFrame == UNCHANGED <<retryVars, storeVars, sessionVars, orchVars, intentVars,
                         parseVars, cdkVars>>

\* processJarvisRequest(message, architecture) is called: layers 1 to 3 run,
\* and the call suspends on the dynamic import or its catch block returns.
ProcessJarvisRequestCall(c) ==
    /\ PipeFrame
    /\ pipelineCalls[c].pc = "idle"
    /\ \E message \in Messages, nodes \in NodeShapes :
        LET ran == SynchronousLayers(message, nodes)
        IN  pipelineCalls' = [pipelineCalls EXCEPT ![c] =
                [pc |-> IF ran.threw THEN "returned" ELSE "importing",
                 message |-> message, nodes |-> nodes, intent |-> ran.intent,
                 aiCalls |-> 0, result |-> PipelineError, trace |-> ran.trace]]

\* The import of ./cohere-chat settles: generateCohereChatCompletion is
\* called and the call suspends on it, or the catch block returns.
PipelineImportSettles(c) ==
    /\ PipeFrame
    /\ pipelineCalls[c].pc = "importing"
    /\ \E outcome \in ImportOutcomes :
        pipelineCalls' = [pipelineCalls EXCEPT ![c] =
            IF outcome = "fails"
              THEN [@ EXCEPT !.pc = "returned", !.result = PipelineError]
              ELSE [@ EXCEPT !.pc = "aiCall", !.aiCalls = @ + 1,
                             !.trace = Begin(@, "ai")]]

\* The Cohere call settles: layer 5 processes the response and the call
\* returns, or the catch block returns.
PipelineAiSettles(c) ==
    /\ PipeFrame
    /\ pipelineCalls[c].pc = "aiCall"
    /\ \E outcome \in AiOutcomes :
        pipelineCalls' = [pipelineCalls EXCEPT ![c] =
            IF outcome = "rejects"
              THEN [@ EXCEPT !.pc = "returned", !.result = PipelineError]
              ELSE [@ EXCEPT !.pc = "returned",
                             !.result =
                                 PipelineResult(pipelineCalls[c].intent.intentType,
                                                outcome),
                             !.trace = Finish(Begin(Finish(@, "ai"), "post"),
                                              "post")]]

PipelineInit == pipelineCalls = [c \in PipelineCallIds |-> IdleCall]

PipelineNext ==
    \E c \in PipelineCallIds :
        \/ ProcessJarvisRequestCall(c)
        \/ PipelineImportSettles(c)
        \/ PipelineAiSettles(c)

(***************************************************************************)
(*                      processArchitectureUpdate                          *)
(***************************************************************************)

\* The extraction patterns, in the order of the patterns array: the
\* <architecture> tags, a code block, a json code block, a bare object
\* with "nodes": [ and "edges": [.
ExtractionPatterns == 1 .. 4

\* What a captured text is, once trimmed: "not-json" makes JSON.parse
\* throw; the others parse to null, to a number, to an object without
\* nodes, to an object whose nodes are an array and which has no edges, to
\* an object whose nodes are no array and whose edges are one, and to an
\* object whose nodes and edges are arrays.
TextBodies == {"not-json", "null", "number", "object", "nodes-only",
               "nodes-not-array", "valid"}

\* A capture: "nomatch" when the pattern does not match, "empty" when
\* match[1] is the empty string, else a text, which may be wrapped in a
\* ```json fence.
Text(fenced, body) == [fenced |-> fenced, body |-> body]
NoMatch == Text(FALSE, "nomatch")
EmptyCapture == Text(FALSE, "empty")

\* What each pattern can capture. The lazy capture of the code-block
\* patterns ends before the first closing fence, so only the tag pattern
\* captures fenced text; the bare-object pattern captures text that starts
\* with a brace.
Captures(pattern) ==
    CASE pattern = 1 ->
             {NoMatch, EmptyCapture} \cup {Text(FALSE, b) : b \in TextBodies}
                 \cup {Text(TRUE, b) : b \in {"valid", "object"}}
      [] pattern \in {2, 3} ->
             {NoMatch, EmptyCapture} \cup {Text(FALSE, b) : b \in TextBodies}
      [] pattern = 4 ->
             {NoMatch} \cup {Text(FALSE, b) : b \in {"not-json", "object", "valid"}}

ExplanationSources == {"tag", "text", "nothing"}

\* The raw responses: a response in which the json code-block pattern
\* matches has a code block, so the code-block pattern matches it too.
RawResponses ==
    {r \in [captures : [ExtractionPatterns -> UNION {Captures(q) : q \in ExtractionPatterns}],
            explanation : ExplanationSources] :
        /\ \A q \in ExtractionPatterns : r.captures[q] \in Captures(q)
        /\ r.captures[3] # NoMatch => r.captures[2] # NoMatch}

\* architectureText.replace(/^```json\s*|\s*```$/g, ''): the fence is removed.
CleanUp(text) == Text(FALSE, text.body)

\* JSON.parse(architectureText) of the text captured by pattern: [threw, value]
JsonParse(text, pattern) ==
    LET value(type, nodes, edges) ==
            [type |-> type, nodes |-> nodes, edges |-> edges, from |-> pattern]
    IN  CASE text.fenced \/ text.body = "not-json" ->
                 [threw |-> TRUE, value |-> value("undefined", "missing", "missing")]
          [] text.body = "null" ->
                 [threw |-> FALSE, value |-> value("null", "missing", "missing")]
          [] text.body = "number" ->
                 [threw |-> FALSE, value |-> value("number", "missing", "missing")]
          [] text.body = "object" ->
                 [threw |-> FALSE, value |-> value("object", "missing", "missing")]
          [] text.body = "nodes-only" ->
                 [threw |-> FALSE, value |-> value("object", "array", "missing")]
          [] text.body = "nodes-not-array" ->
                 [threw |-> FALSE, value |-> value("object", "object", "array")]
          [] text.body = "valid" ->
                 [threw |-> FALSE, value |-> value("object", "array", "array")]

\* let parsedArchitecture = null
NullValue == [type |-> "null", nodes |-> "missing", edges |-> "missing", from |-> 0]

\* A variant of IsArchitecture that accepts every object.
IsObject(value) == value.type = "object"

\* parsedArchitecture && Array.isArray(parsedArchitecture.nodes)
\*                    && Array.isArray(parsedArchitecture.edges)
IsArchitecture(value) ==
    /\ value.type \notin {"null", "undefined"}
    /\ value.nodes = "array"
    /\ value.edges = "array"

\* The loop over the patterns, from pattern on, with the current value of
\* parsedArchitecture: its value when the loop ends.
RECURSIVE TryPatterns(_, _, _)
TryPatterns(response, pattern, parsedArchitecture) ==
    IF pattern > 4 THEN parsedArchitecture
    ELSE LET capture == response.captures[pattern]
             parsed == JsonParse(CleanUp(capture), pattern)
         IN  IF capture \in {NoMatch, EmptyCapture}
               THEN TryPatterns(response, pattern + 1, parsedArchitecture)
             ELSE IF parsed.threw
               THEN TryPatterns(response, pattern + 1, parsedArchitecture)
             ELSE IF IsArchitecture(parsed.value)
               THEN parsed.value
             ELSE TryPatterns(response, pattern + 1, NullValue)

\* The explanation: the content of the <explanation> tag, else the response
\* without the captured blocks, else the default text.
ExplanationOf(response) ==
    CASE response.explanation = "tag" -> "tag-content"
      [] response.explanation = "text" -> "cleaned-response"
      [] OTHER -> "Architecture updated."

\* processArchitectureUpdate(rawResponse)
ProcessArchitectureUpdate(response) ==
    [parsedArchitecture |-> TryPatterns(response, 1, NullValue),
     explanation |-> ExplanationOf(response)]

NoResponse == [captures |-> [q \in ExtractionPatterns |-> NoMatch],
               explanation |-> "nothing"]

ParseFrame == UNCHANGED <<retryVars, storeVars, sessionVars, orchVars, intentVars,
                          pipeVars, cdkVars>>

\* Layer 5 of an architecture update calls processArchitectureUpdate on the
\* raw response of the AI.
ProcessArchitectureUpdateCall ==
    /\ ParseFrame
    /\ uPc = "idle"
    /\ uPc' = "done"
    /\ \E response \in RawResponses :
        /\ uResponse' = response
        /\ uReturned' = ProcessArchitectureUpdate(response)

\* The next response arrives.
NextResponse ==
    /\ ParseFrame
    /\ uPc = "done"
    /\ uPc' = "idle"
    /\ uResponse' = NoResponse
    /\ uReturned' = ProcessArchitectureUpdate(NoResponse)

ParseInit ==
    /\ uPc = "idle"
    /\ uResponse = NoResponse
    /\ uReturned = ProcessArchitectureUpdate(NoResponse)

ParseNext ==
    \/ ProcessArchitectureUpdateCall
    \/ NextResponse

(***************************************************************************)
(*        The generate-cdk and update-architecture request handlers        *)
(***************************************************************************)

\* Bound of the model.
MaxCdkRequests == 4    \* requests per run, of all three kinds together

CdkIds == {"arch-1", "arch-2"}
CdkLanguages == {"typescript", "python"}
\* What generateArchitectureSuggestion settles with: the code, or a rejection.
CdkOutcomes == {"cdk-1", "rejects"}
\* The nodes and edges update-architecture requests carry.
EditBodies == {[nodes |-> "nodes-A", edges |-> "edges-A"],
               [nodes |-> "nodes-B", edges |-> "edges-B"]}

\* The metadata keys generate-cdk sets.
CdkKeys == {"cdkCode", "cdkLanguage", "cdkGeneratedAt"}

\* What generate-cdk stores: {...architecture, metadata:
\* {...architecture.metadata, cdkCode, cdkLanguage, cdkGeneratedAt}}, of the
\* architecture it read before the AI call.
CdkArchitecture(architecture, cdkCode, language, now) ==
    Merge(Spread(architecture),
          [metadata |-> Merge(MetadataOf(Spread(architecture)),
                              [cdkCode |-> cdkCode, cdkLanguage |-> language,
                               cdkGeneratedAt |-> now])])

\* What update-architecture passes to saveArchitecture.
EditedArchitecture(currentArchitecture, nodes, edges, now) ==
    Merge(Spread(currentArchitecture),
          [nodes |-> nodes, edges |-> edges,
           metadata |-> Merge(MetadataOf(Spread(currentArchitecture)),
                              [lastEdited |-> now, userEdited |-> TRUE])])

\* Whether after differs from before in nothing but the metadata keys that
\* generate-cdk sets.
OnlyCdkKeysChanged(before, after) ==
    /\ DOMAIN after = (DOMAIN before) \cup {"metadata"}
    /\ \A k \in (DOMAIN before) \ {"metadata"} : after[k] = before[k]
    /\ DOMAIN after.metadata = (DOMAIN MetadataOf(before)) \cup CdkKeys
    /\ \A k \in (DOMAIN MetadataOf(before)) \ CdkKeys :
           after.metadata[k] = MetadataOf(before)[k]

NoCommit == [set |-> FALSE, nodes |-> "", edges |-> ""]
NoCdkRequest == [architectureId |-> "", language |-> "typescript"]
NoEditRequest == [architectureId |-> "", nodes |-> "", edges |-> ""]

\* A step of the two handlers leaves the store's bookkeeping and the other
\* subsystems alone.
CdkFrame ==
    UNCHANGED <<clock, writes, lastSaved, lastSave, lastUpdate, pendingUpdate,
                retryVars, sessionVars, orchVars, intentVars, pipeVars,
                parseVars>>

\* The assistant saves an architecture it has generated:
\* saveArchitecture(architectureId, args.architecture, 'Jarvis').
AssistantSavesArchitecture ==
    /\ CdkFrame
    /\ cRequests < MaxCdkRequests
    /\ cRequests' = cRequests + 1
    /\ \E id \in CdkIds, a \in SaveInputs :
        /\ architectureStore' =
               StorePut(architectureStore, id, SavedArchitecture(a, "Jarvis", clock))
        /\ committed' = [committed EXCEPT ![id] =
                            [set |-> TRUE, nodes |-> a.nodes, edges |-> a.edges]]
    /\ UNCHANGED <<gPc, gRequest, gArchitecture, ePc, eRequest, eCurrent,
                   lastCdkWrite>>

\* generate-cdk starts: it reads architectureStore[architectureId], answers
\* 404 when there is none, and else suspends on the AI call.
GenerateCdkReads ==
    /\ CdkFrame
    /\ gPc \in {"idle", "done"}
    /\ cRequests < MaxCdkRequests
    /\ cRequests' = cRequests + 1
    /\ \E id \in CdkIds, language \in CdkLanguages :
        LET architecture == PropertyLookup(architectureStore, id)
        IN  /\ gRequest' = [architectureId |-> id, language |-> language]
            /\ gArchitecture' = architecture
            /\ gPc' = IF Truthy(architecture) THEN "awaitingAi" ELSE "done"
    /\ UNCHANGED <<architectureStore, ePc, eRequest, eCurrent, committed,
                   lastCdkWrite>>

\* The AI call of generate-cdk settles: the handler stores the architecture
\* with the CDK code, or answers 500.
GenerateCdkWrites ==
    /\ CdkFrame
    /\ gPc = "awaitingAi"
    /\ gPc' = "done"
    /\ \E outcome \in CdkOutcomes :
        IF outcome = "rejects"
          THEN UNCHANGED <<architectureStore, lastCdkWrite>>
          ELSE LET id == gRequest.architectureId
                   current == PropertyLookup(architectureStore, id)
                   stored == CdkArchitecture(gArchitecture, outcome,
                                             gRequest.language, clock)
               IN  /\ architectureStore' = StorePut(architectureStore, id, stored)
                   /\ lastCdkWrite' =
                        [done |-> TRUE,
                         overlapped |-> current # gArchitecture,
                         sinceRead |-> OnlyCdkKeysChanged(Spread(gArchitecture), stored),
                         inStore |-> OnlyCdkKeysChanged(Spread(current), stored)]
    /\ UNCHANGED <<gRequest, gArchitecture, ePc, eRequest, eCurrent, cRequests,
                   committed>>

\* update-architecture starts: it awaits getArchitecture(architectureId) and
\* answers 404 when that is null.
UpdateArchitectureReads ==
    /\ CdkFrame
    /\ ePc \in {"idle", "done"}
    /\ cRequests < MaxCdkRequests
    /\ cRequests' = cRequests + 1
    /\ \E id \in CdkIds, body \in EditBodies :
        LET currentArchitecture == GetArchitecture(architectureStore, id)
        IN  /\ eRequest' = [architectureId |-> id, nodes |-> body.nodes,
                            edges |-> body.edges]
            /\ eCurrent' = currentArchitecture
            /\ ePc' = IF Truthy(currentArchitecture) THEN "read" ELSE "done"
    /\ UNCHANGED <<architectureStore, gPc, gRequest, gArchitecture, committed,
                   lastCdkWrite>>

\* update-architecture resumes: it builds updatedArchitecture from what it
\* read and saves it with saveArchitecture(id, updatedArchitecture, 'User').
UpdateArchitectureSaves ==
    /\ CdkFrame
    /\ ePc = "read"
    /\ ePc' = "done"
    /\ LET id == eRequest.architectureId
           updated == EditedArchitecture(eCurrent, eRequest.nodes, eRequest.edges,
                                         clock)
       IN  /\ architectureStore' =
                  StorePut(architectureStore, id, SavedArchitecture(updated, "User", clock))
           /\ committed' = [committed EXCEPT ![id] =
                               [set |-> TRUE, nodes |-> eRequest.nodes,
                                edges |-> eRequest.edges]]
    /\ UNCHANGED <<gPc, gRequest, gArchitecture, eRequest, eCurrent, cRequests,
                   lastCdkWrite>>

\* Time passes, for the two handlers.
CdkTick ==
    /\ Tick
    /\ UNCHANGED cdkVars

CdkInit ==
    /\ gPc = "idle"
    /\ gRequest = NoCdkRequest
    /\ gArchitecture = JsUndefined
    /\ ePc = "idle"
    /\ eRequest = NoEditRequest
    /\ eCurrent = JsNull
    /\ cRequests = 0
    /\ committed = [id \in CdkIds |-> NoCommit]
    /\ lastCdkWrite = [done |-> FALSE, overlapped |-> FALSE, sinceRead |-> TRUE,
                       inStore |-> TRUE]

CdkNext ==
    \/ CdkTick
    \/ AssistantSavesArchitecture
    \/ GenerateCdkReads
    \/ GenerateCdkWrites
    \/ UpdateArchitectureReads
    \/ UpdateArchitectureSaves

RetryNext ==
    \/ RetryCall
    \/ RetryAttemptSucceeds
    \/ RetryAttemptFails
    \/ RetryTimerFires

Init == RetryInit /\ StoreInit /\ SessionInit /\ OrchInit /\ IntentInit
        /\ PipelineInit /\ ParseInit /\ CdkInit

SpecRetry == Init /\ [][RetryNext]_vars

SpecStore == Init /\ [][StoreNext]_vars

SpecSession == Init /\ [][SessionNext]_vars

SpecSessionHistory == Init /\ [][HistoryNext]_vars

SpecOrch == Init /\ [][OrchNext]_vars

SpecIntent == Init /\ [][IntentNext]_vars

SpecPipeline == Init /\ [][PipelineNext]_vars

SpecParse == Init /\ [][ParseNext]_vars

SpecCdk == Init /\ [][CdkNext]_vars

RetryFinished == rPc \in {"returned", "thrown"}

\* What the claims call a retryable error.
Retryable(error) ==
    \/ error.status \in RetryStatusCodes
    \/ \E needle \in { <<"Service", "Unavailable">>, <<"network">>,
                       <<"timeout">>, <<"overloaded">> } :
           Includes(error.message, needle)

\* C1: withExponentialBackoff always terminates: a call that has started takes
\* a bounded number of steps, every one of which leads on until it has
\* returned or thrown, and it invokes the operation at most maxRetries + 1
\* times (4 times with the defaults).
C1_TerminatesWithinBudget ==
    rPc # "idle" =>
        /\ calls <= IF maxRetries >= 0 THEN maxRetries + 1 ELSE 0
        /\ (rOpts = EmptyObj => calls <= 4)
        /\ rSteps <= 1 + 2 * (IF maxRetries >= 0 THEN maxRetries + 1 ELSE 0)
        /\ (RetryFinished \/ ENABLED RetryNext)

\* A call with the default options has used all four invocations.
C1_Witness ==
    /\ rOpts = EmptyObj
    /\ RetryFinished
    /\ calls = 4

\* C2: when all maxRetries + 1 attempts fail with retryable errors, the error
\* thrown is the one the last attempt raised, not an earlier one.
C2_ThrowsLastError ==
    (/\ rPc = "thrown"
     /\ maxRetries >= 0
     /\ calls = maxRetries + 1
     /\ Retryable(lastRaised))
        => (rThrown = lastRaised /\ rThrown.seq = calls)

\* Four attempts failed with retryable errors and the call has thrown.
C2_Witness ==
    /\ rPc = "thrown"
    /\ maxRetries = 3
    /\ calls = 4
    /\ Retryable(lastRaised)
    /\ sleeps = 3

\* C3: the call returns the value of the first attempt that succeeds, and the
\* operation is never invoked again after a success.
C3_ReturnsFirstSuccess ==
    /\ (firstSuccess.at # 0 =>
            /\ rPc = "returned"
            /\ rResult = firstSuccess.value
            /\ calls = firstSuccess.at)
    /\ (rPc = "returned" => firstSuccess.at # 0)

\* A success on the third attempt, after two retried failures.
C3_Witness ==
    /\ rPc = "returned"
    /\ firstSuccess.at = 3
    /\ rResult = "v2"

\* C4: an attempt that fails with an error that is not retryable makes the call
\* throw that very error at once: no sleep is started for it and the operation
\* is not invoked again, whatever budget remains.
C4_NonRetryableThrownAtOnce ==
    (lastRaised # NoError /\ ~Retryable(lastRaised)) =>
        /\ rPc = "thrown"
        /\ rThrown = lastRaised
        /\ calls = lastRaised.seq
        /\ sleeps = lastRaised.seq - 1

\* The second attempt raised a non-retryable error with two retries left.
C4_Witness ==
    /\ rPc = "thrown"
    /\ maxRetries = 3
    /\ lastRaised.seq = 2
    /\ ~Retryable(lastRaised)
    /\ lastRaised.status = 404

\* The metadata keys saveArchitecture and updateArchitectureFields set
\* themselves.
Bookkeeping == {"lastEditedAt", "lastEditedBy"}

\* After a completed saveArchitecture(id, a, by), and until the next write
\* to id, getArchitecture(id) returns a's nodes and edges, edited by `by`.
ReadsLastSave(id) ==
    lastSaved[id].set =>
        LET r == GetArchitecture(architectureStore, id) IN
        /\ r.type = "object"
        /\ Field(r.props, "nodes") = lastSaved[id].nodes
        /\ Field(r.props, "edges") = lastSaved[id].edges
        /\ Field(MetadataOf(r.props), "lastEditedBy") = lastSaved[id].by

\* getArchitecture(id) is null exactly when id is empty or has no entry.
NullExactlyWithoutEntry(id) ==
    (GetArchitecture(architectureStore, id) = JsNull)
        <=> (id = "" \/ id \notin DOMAIN architectureStore)

\* C5: the store is one shared map with read-your-writes semantics: what a
\* completed saveArchitecture(id, a, by) stored is what every later
\* getArchitecture(id) returns until the next write to id; getArchitecture
\* returns null exactly when id is empty or has no entry; a save to id leaves
\* what every other id reads unchanged.
C5_SharedMapReadYourWrites ==
    /\ \A id \in StoreIds : ReadsLastSave(id)
    /\ \A id \in StoreIds : NullExactlyWithoutEntry(id)
    /\ lastSave.othersKept

\* The same, for the ids that name no property of Object.prototype.
StoreIsMapOffPrototype ==
    /\ \A id \in StoreIds : ReadsLastSave(id)
    /\ \A id \in StoreIds \ ObjectPrototypeKeys : NullExactlyWithoutEntry(id)
    /\ lastSave.othersKept

\* What updateArchitectureFields promises of a call on an id with an entry.
UpdateMergesFields(u) ==
    /\ u.result.type = "object"
    /\ LET r == u.result.props
           fm == MetadataOf(u.fields)
           bm == MetadataOf(u.before)
       IN  /\ \A k \in (DOMAIN u.fields) \ {"metadata"} :
                  k \in DOMAIN r /\ r[k] = u.fields[k]
           /\ \A k \in (DOMAIN u.before) \ ((DOMAIN u.fields) \cup {"metadata"}) :
                  k \in DOMAIN r /\ r[k] = u.before[k]
           /\ \A k \in (DOMAIN fm) \ Bookkeeping :
                  k \in DOMAIN r.metadata /\ r.metadata[k] = fm[k]
           /\ \A k \in (DOMAIN bm) \ ((DOMAIN fm) \cup Bookkeeping) :
                  k \in DOMAIN r.metadata /\ r.metadata[k] = bm[k]
           /\ r.metadata.lastEditedBy = u.by

\* C6: updateArchitectureFields(id, fields, by) returns null and leaves the
\* store unchanged when id has no entry; otherwise the stored result takes
\* every top-level key of fields, keeps every other top-level key, and its
\* metadata is the previous metadata overridden by fields.metadata, with
\* lastEditedBy = by.
C6_UpdateFieldsFrame ==
    lastUpdate.called =>
        IF ~lastUpdate.hadEntry
          THEN lastUpdate.result = JsNull /\ lastUpdate.storeKept
          ELSE UpdateMergesFields(lastUpdate)

\* The same, for the ids that name no property of Object.prototype.
UpdateFieldsFrameOffPrototype ==
    (lastUpdate.called /\ lastUpdate.id \notin ObjectPrototypeKeys) =>
        IF ~lastUpdate.hadEntry
          THEN lastUpdate.result = JsNull /\ lastUpdate.storeKept
          ELSE UpdateMergesFields(lastUpdate)

\* The most recent (up to IntentHistoryLimit) entries of a log, in order.
IsRecentTail(intents, log) ==
    /\ Len(intents) = Min(Len(log), 20)
    /\ \A i \in 1 .. Len(intents) :
           intents[i] = log[Len(log) - Len(intents) + i]

\* C7: after any sequence of updateSession calls a session's intents hold at
\* most 20 entries, and exactly the most recent (up to 20) intents recorded
\* for that session, in the order they were recorded.
C7_IntentHistoryBounded ==
    \A id \in DOMAIN activeSessions :
        /\ Len(activeSessions[id].intents) <= 20
        /\ IsRecentTail(activeSessions[id].intents, sessionLog[id])

\* A session for which 21 intents were recorded, the first at another time
\* than the last: the oldest has been cut.
C7_Witness ==
    /\ "arch-1" \in DOMAIN activeSessions
    /\ Len(sessionLog["arch-1"]) = 21
    /\ sessionLog["arch-1"][1].timestamp # sessionLog["arch-1"][21].timestamp
    /\ Len(activeSessions["arch-1"].intents) = 20

\* What getOrCreateSession(id) does in the current state.
GetOrCreateIsIdempotent(id) ==
    LET got == GetOrCreateSession(activeSessions, id, clock)
        created == got.sessions # activeSessions
    IN  /\ created =>
              /\ id \notin DOMAIN activeSessions
              /\ got.value.type = "object"
              /\ got.value.props.messageCount = 0
              /\ got.value.props.intents = <<>>
        /\ id \in DOMAIN activeSessions =>
              /\ ~created
              /\ got.value = JsObject(activeSessions[id])
        /\ \A other \in SessionIds \ {id} :
              /\ other \in DOMAIN got.sessions <=> other \in DOMAIN activeSessions
              /\ other \in DOMAIN activeSessions =>
                    got.sessions[other] = activeSessions[other]
        /\ \A later \in {clock, clock + 1} :
              LET again == GetOrCreateSession(got.sessions, id, later)
              IN  again.sessions = got.sessions /\ again.value = got.value

C9_NeverRejects ==
    /\ oSettled # "rejected"
    /\ oPc = "done" =>
          /\ oSettled = "resolved"
          /\ oResult.response \in ResponseTexts
          /\ oFailed # {} =>
                /\ oResult.architectureUpdated = FALSE
                /\ "updatedArchitecture" \notin DOMAIN oResult

\* The pipeline returned a post-processed answer, the follow-up suggestions
\* failed afterwards, and the request resolved with the fallback response.
C9_Witness ==
    /\ oPc = "done"
    /\ oPipeline.response = "post-processed"
    /\ oFailed = {"followups"}
    /\ oSettled = "resolved"
    /\ oResult.response = "fallback"

\* C10: whenever processing of a request fails inside
\* orchestrateJarvisRequest, a failure of the AI call included, the returned
\* metadata is the fallback one: intent 'general_chat' and confidence 0.
C10_FailureGivesFallbackMetadata ==
    (oPc = "done" /\ oFailed # {}) =>
        /\ oResult.metadata.intent = "general_chat"
        /\ oResult.metadata.confidence = 0

\* Whenever the catch block of orchestrateJarvisRequest ran, the metadata is
\* the fallback one.
FallbackMetadataWhenCaught ==
    (oPc = "done" /\ oFailed \cap {"intent", "session", "followups"} # {}) =>
        /\ oResult.metadata.intent = "general_chat"
        /\ oResult.metadata.confidence = 0

\* A rule matches a message, in the words of the claims: one of its patterns
\* matches and, if it has keywordSets, one keyword set is contained whole.
RuleMatches(i, message) ==
    /\ PatternMatched(intentRules[i], message)
    /\ KeywordMatched(intentRules[i], message)

\* intent is the intent of the heaviest rule among candidates, the one
\* declared first among equally heavy ones; 'general_chat' without candidates.
IsHeaviestFirstDeclared(intent, candidates) ==
    IF candidates = {} THEN intent = "general_chat"
    ELSE \E i \in candidates :
             /\ intent = intentRules[i].intent
             /\ \A j \in candidates :
                    \/ intentRules[j].weight < intentRules[i].weight
                    \/ intentRules[j].weight = intentRules[i].weight /\ i <= j

\* The rules that match the message.
MatchingRules == {i \in 1 .. Len(intentRules) : RuleMatches(i, iMessage)}

\* The rules that match the message and are not left out for requiring an
\* architecture context that is absent.
ConsideredRules ==
    {i \in MatchingRules : ~(intentRules[i].requiresContext /\ ~iContext)}

\* C11, as stated: inferIntent returns the intent of the rule with the
\* greatest weight among the rules that match the message, the one declared
\* first among those of equal greatest weight, and 'general_chat' when no rule
\* matches.
C11_HeaviestMatchingRule ==
    iPc = "done" => IsHeaviestFirstDeclared(iResult, MatchingRules)

\* C11, amended: inferIntent returns the intent of the rule with the greatest
\* weight among the matching rules it considers, which leave out the rules
\* with requiresContext when hasArchitectureContext is false; the rule
\* declared first wins among those of equal greatest weight; it returns
\* 'general_chat' when no such rule matches.
C11_HeaviestConsideredRule ==
    iPc = "done" => IsHeaviestFirstDeclared(iResult, ConsideredRules)

\* Two matching rules share the greatest weight (architecture_rationale
\* and system_design, 85) and the one declared first was returned.
C11_Witness ==
    /\ iPc = "done"
    /\ iContext
    /\ \E i, j \in ConsideredRules :
           /\ i < j
           /\ intentRules[i].weight = intentRules[j].weight
           /\ \A k \in ConsideredRules :
                  intentRules[k].weight <= intentRules[i].weight
           /\ iResult = intentRules[i].intent
           /\ iResult # intentRules[j].intent

\* The intents whose rule has requiresContext.
ContextIntents ==
    {intentRules[i].intent :
        i \in {j \in 1 .. Len(intentRules) : intentRules[j].requiresContext}}

\* C12: when hasArchitectureContext is false, inferIntent never returns an
\* intent whose rule has requiresContext (architecture_update,
\* architecture_rationale, cdk_generation, architecture_explanation).
C12_NoContextIntentWithoutContext ==
    /\ ContextIntents = {"architecture_update", "architecture_rationale",
                         "cdk_generation", "architecture_explanation"}
    /\ (iPc = "done" /\ ~iContext) => iResult \notin ContextIntents

\* inferIntent ran without context on a message that a rule with
\* requiresContext matches.
C12_Witness ==
    /\ iPc = "done"
    /\ ~iContext
    /\ \E i \in MatchingRules : intentRules[i].requiresContext

\* C16: every intent whose rule requires architecture context is mapped by
\* getContextLevelForIntent to a level other than 'none', and the context
\* string built for it is not empty.
C16_ContextIntentsGetContext ==
    (iPc = "done" /\ iContext /\ iResult \in ContextIntents) =>
        /\ iLevel = GetContextLevelForIntent(iResult)
        /\ iLevel # "none"
        /\ iContextString # <<>>

\* The same, for the intents with a case of their own in
\* getContextLevelForIntent.
ContextIntentsWithCaseGetContext ==
    (iPc = "done" /\ iContext
       /\ iResult \in ContextIntents \ {"architecture_rationale"}) =>
           /\ iLevel # "none"
           /\ iContextString # <<>>

\* The events of a call in which every layer ran to its end.
FullTrace ==
    <<  <<"intent", "start">>, <<"intent", "finish">>,
        <<"language", "start">>, <<"language", "finish">>,
        <<"prompt", "start">>, <<"prompt", "finish">>,
        <<"ai", "start">>, <<"ai", "finish">>,
        <<"post", "start">>, <<"post", "finish">>  >>

\* How often the call has invoked the AI, as its trace records it.
AiStarts(trace) ==
    Cardinality({i \in 1 .. Len(trace) : trace[i] = <<"ai", "start">>})

\* C13: within one processJarvisRequest call the layers run strictly in
\* sequence, intent detection, language detection, prompt generation, AI
\* call, response post-processing: what has run so far is an initial part of
\* that sequence, in which a layer starts only after the one before it has
\* finished; the AI is called at most once; a call waiting for the AI has
\* finished the three layers before it, and post-processing has run only in a
\* call whose AI call has finished.
C13_LayersInSequence ==
    \A c \in PipelineCallIds :
        LET call == pipelineCalls[c] IN
        /\ \E n \in 0 .. Len(FullTrace) : call.trace = SubSeq(FullTrace, 1, n)
        /\ call.aiCalls <= 1
        /\ call.aiCalls = AiStarts(call.trace)
        /\ call.pc = "importing" => Len(call.trace) = 6
        /\ call.pc = "aiCall" => Len(call.trace) = 7
        /\ call.result.response # PipelineError.response => call.trace = FullTrace

\* One call has run all five layers to the end while another is still
\* waiting for its AI call.
C13_Witness ==
    \E c, d \in PipelineCallIds :
        /\ pipelineCalls[c].pc = "returned"
        /\ pipelineCalls[c].trace = FullTrace
        /\ pipelineCalls[c].result.architectureUpdated
        /\ pipelineCalls[d].pc = "aiCall"
        /\ pipelineCalls[d].aiCalls = 1

\* The captured text of a pattern is JSON for an object whose nodes and edges
\* are both arrays.
YieldsArchitecture(response, pattern) ==
    response.captures[pattern].body = "valid"

\* C14: processArchitectureUpdate returns a non-null parsedArchitecture only
\* if it is a parsed JSON object whose nodes and edges are both arrays, taken
\* from the text one of the patterns captured; for every raw response in
\* which no pattern yields such an object it returns null, never a partially
\* valid or unparsed value.
C14_ParsedArchitectureValidOrNull ==
    uPc = "done" =>
        LET value == uReturned.parsedArchitecture IN
        /\ value # NullValue =>
               /\ value.type = "object"
               /\ value.nodes = "array"
               /\ value.edges = "array"
               /\ value.from \in ExtractionPatterns
               /\ YieldsArchitecture(uResponse, value.from)
        /\ (\A q \in ExtractionPatterns : ~YieldsArchitecture(uResponse, q)) =>
               value = NullValue

\* The tag pattern captured an object without edges, the code-block pattern
\* text that is no JSON, and the result is the architecture the bare-object
\* pattern captured.
C14_Witness ==
    /\ uPc = "done"
    /\ uResponse.captures[1].body = "nodes-only"
    /\ uResponse.captures[2].body = "not-json"
    /\ uResponse.captures[4].body = "valid"
    /\ uReturned.parsedArchitecture.from = 4

\* The nodes and edges last committed under every id are the ones stored.
CommittedStillStored ==
    \A id \in CdkIds :
        committed[id].set =>
            /\ id \in DOMAIN architectureStore
            /\ Field(architectureStore[id], "nodes") = committed[id].nodes
            /\ Field(architectureStore[id], "edges") = committed[id].edges

\* C15: generate-cdk changes only metadata.cdkCode, cdkLanguage and
\* cdkGeneratedAt of the stored architecture: the nodes and edges committed
\* by an update-architecture request that completes while generate-cdk's AI
\* call is in flight are still in the store after generate-cdk finishes, for
\* every interleaving of the two requests on the same id.
C15_CdkChangesOnlyCdkMetadata ==
    /\ lastCdkWrite.inStore
    /\ CommittedStillStored

\* What generate-cdk stores differs from the architecture it read before its
\* AI call in the three metadata keys only; and a write that no other write
\* to the id overlapped changes nothing else in the store.
CdkWriteKeepsSnapshot ==
    /\ lastCdkWrite.sinceRead
    /\ ~lastCdkWrite.overlapped => lastCdkWrite.inStore

====
